---- MODULE Spec2Model ----
(***************************************************************************)
(* A model of ls.py: directory entries with lazy recursive aggregation     *)
(* (Entry), the sort keys (Key), the fixed-width formatter (Format), the   *)
(* multi-column layout and the live renderer (PRS) with the terminal it    *)
(* paints.                                                                 *)
(*                                                                         *)
(* Strings are sequences of code points, so that comparison, case folding, *)
(* slicing and the control-code filter are computed as Python computes     *)
(* them.  Tuples built by the keys are sequences of such strings; a bool   *)
(* or an int component is the one-element sequence holding it.             *)
(***************************************************************************)
EXTENDS Integers, Sequences, FiniteSets, TLC

\* ------------------------------------------------------------------ bounds

\* Largest advance of the wall clock between two readings, in ticks.
MaxDelta == 1

\* Largest number of `with prs` sessions in one behaviour.
MaxSessions == 2

\* Longest list of strings handed to PRS._lines on its own.
MaxItems == 4

\* ----------------------------------------------------------------- strings

\* Python's None, for the int-valued fields that start as None.
None == -99

Max2(a, b) == IF a >= b THEN a ELSE b

Min2(a, b) == IF a <= b THEN a ELSE b

\* max(...) over a non-empty sequence of ints.
RECURSIVE MaxOf(_)
MaxOf(s) == IF Len(s) = 1 THEN s[1] ELSE Max2(s[1], MaxOf(Tail(s)))

\* sum(...) over a sequence of ints.
RECURSIVE SumOf(_)
SumOf(s) == IF s = <<>> THEN 0 ELSE s[1] + SumOf(Tail(s))

\* [x] * n (n <= 0 gives the empty list, as in Python).
Repeat(x, n) == [i \in 1..n |-> x]

\* str < str, and int < int on one-element sequences: lexicographic order on
\* code points, a proper prefix being smaller.
StrLt(s, t) ==
    LET n == Min2(Len(s), Len(t))
        diff == {i \in 1..n : s[i] # t[i]}
    IN IF diff = {} THEN Len(s) < Len(t)
       ELSE LET d == CHOOSE i \in diff : \A j \in diff : i <= j
            IN s[d] < t[d]

\* tuple < tuple: the first component that differs decides.
TupleLt(a, b) ==
    LET n == Min2(Len(a), Len(b))
        diff == {i \in 1..n : a[i] # b[i]}
    IN IF diff = {} THEN Len(a) < Len(b)
       ELSE LET d == CHOOSE i \in diff : \A j \in diff : i <= j
            IN StrLt(a[d], b[d])

\* str.casefold() on ASCII: A-Z map to a-z.
casefold(s) == [i \in 1..Len(s) |-> IF s[i] \in 65..90 THEN s[i] + 32 ELSE s[i]]

\* str.rfind(ch) as a 1-based position, 0 when absent.
rfind(s, ch) ==
    LET at == {i \in 1..Len(s) : s[i] = ch}
    IN IF at = {} THEN 0 ELSE CHOOSE i \in at : \A j \in at : j <= i

\* The decimal digits of a non-negative int, as code points.
RECURSIVE Digits(_)
Digits(n) == IF n < 10 THEN <<48 + n>> ELSE Digits(n \div 10) \o <<48 + (n % 10)>>

\* str.replace(ch, by) for a one-character pattern.
RECURSIVE Replace(_, _, _)
Replace(s, ch, by) ==
    IF s = <<>> THEN <<>>
    ELSE (IF s[1] = ch THEN by ELSE <<s[1]>>) \o Replace(Tail(s), ch, by)

\* str.join over a sequence of strings.
RECURSIVE Join(_, _)
Join(sep, parts) ==
    IF parts = <<>> THEN <<>>
    ELSE IF Len(parts) = 1 THEN parts[1]
    ELSE parts[1] \o sep \o Join(sep, Tail(parts))

\* -------------------------------------------------------------------- cons

IsLetter(c) == c \in 65..90 \/ c \in 97..122

IsParam(c) == c \in 48..57 \/ c = 59

\* The position after the longest run of [0-9;] that starts at i.
RECURSIVE SkipParams(_, _)
SkipParams(s, i) ==
    IF i <= Len(s) /\ IsParam(s[i]) THEN SkipParams(s, i + 1) ELSE i

\* cons.length: the number of characters left once every match of
\* \x1b\[[0-9;]*[A-Za-z] is removed, scanning from the left.
RECURSIVE LengthFrom(_, _)
LengthFrom(s, i) ==
    IF i > Len(s) THEN 0
    ELSE IF s[i] = 27 /\ i + 1 <= Len(s) /\ s[i + 1] = 91
         THEN LET j == SkipParams(s, i + 2)
              IN IF j <= Len(s) /\ IsLetter(s[j])
                 THEN LengthFrom(s, j + 1)
                 ELSE 1 + LengthFrom(s, i + 1)
         ELSE 1 + LengthFrom(s, i + 1)

cons_length(string) == LengthFrom(string, 1)

\* cons.Colour.__call__: the string wrapped in the colour's control codes.
Colour(enabled, cid, string) ==
    IF enabled
    THEN <<27, 91, 51, 56, 59, 53, 59>> \o Digits(cid) \o <<109>>
         \o string \o <<27, 91, 48, 109>>
    ELSE string

\* -------------------------------------------------------------- filesystem

\* The directory trees the program lists.  Nodes 1..5 are os.DirEntry objects
\* that main's scandir yields; nodes 6..8 are the tree below directory 1.
\* kind is "dir", "file" (is_file() is true) or "other" (neither: a broken
\* symbolic link, a FIFO); kids is the order in which os.scandir yields a
\* directory's children.
\*   1  A/      (6 x: 3 bytes, 7 s/ (8 y: 4 bytes))
\*   2  a       5 bytes
\*   3  b.a     5 bytes
\*   4  B.b     2 bytes
\*   5  a       7 bytes: the name of 2 yielded a second time, the file
\*              having been rewritten while the directory was read; its
\*              tuple under Key.name equals that of 2
\*   9  T/      (10 f: 1 byte, 11 u/ (13 g: 2 bytes, 14 v/ (15 h: 6 bytes)),
\*               12 e/ ())
\*  16  L/      (17 g: 4 bytes, 18 k: a broken symbolic link)
\*  19  M/      (20 d/ (21 p: a FIFO, 22 z: 3 bytes))
FS ==
    << [name |-> <<65>>,         kind |-> "dir",  birthtime |-> 1, mtime |-> 4,
        size |-> 0, kids |-> <<6, 7>>],
       [name |-> <<97>>,         kind |-> "file", birthtime |-> 1, mtime |-> 2,
        size |-> 5, kids |-> <<>>],
       [name |-> <<98, 46, 97>>, kind |-> "file", birthtime |-> 3, mtime |-> 2,
        size |-> 5, kids |-> <<>>],
       [name |-> <<66, 46, 98>>, kind |-> "file", birthtime |-> 2, mtime |-> 1,
        size |-> 2, kids |-> <<>>],
       [name |-> <<97>>,         kind |-> "file", birthtime |-> 1, mtime |-> 2,
        size |-> 7, kids |-> <<>>],
       [name |-> <<120>>,        kind |-> "file", birthtime |-> 1, mtime |-> 1,
        size |-> 3, kids |-> <<>>],
       [name |-> <<115>>,        kind |-> "dir",  birthtime |-> 1, mtime |-> 1,
        size |-> 0, kids |-> <<8>>],
       [name |-> <<121>>,        kind |-> "file", birthtime |-> 1, mtime |-> 1,
        size |-> 4, kids |-> <<>>],
       [name |-> <<84>>,         kind |-> "dir",  birthtime |-> 1, mtime |-> 1,
        size |-> 0, kids |-> <<10, 11, 12>>],
       [name |-> <<102>>,        kind |-> "file", birthtime |-> 1, mtime |-> 1,
        size |-> 1, kids |-> <<>>],
       [name |-> <<117>>,        kind |-> "dir",  birthtime |-> 1, mtime |-> 1,
        size |-> 0, kids |-> <<13, 14>>],
       [name |-> <<101>>,        kind |-> "dir",  birthtime |-> 1, mtime |-> 1,
        size |-> 0, kids |-> <<>>],
       [name |-> <<103>>,        kind |-> "file", birthtime |-> 1, mtime |-> 1,
        size |-> 2, kids |-> <<>>],
       [name |-> <<118>>,        kind |-> "dir",  birthtime |-> 1, mtime |-> 1,
        size |-> 0, kids |-> <<15>>],
       [name |-> <<104>>,        kind |-> "file", birthtime |-> 1, mtime |-> 1,
        size |-> 6, kids |-> <<>>],
       [name |-> <<76>>,         kind |-> "dir",  birthtime |-> 1, mtime |-> 1,
        size |-> 0, kids |-> <<17, 18>>],
       [name |-> <<103>>,        kind |-> "file", birthtime |-> 1, mtime |-> 1,
        size |-> 4, kids |-> <<>>],
       [name |-> <<107>>,        kind |-> "other", birthtime |-> 1, mtime |-> 1,
        size |-> 0, kids |-> <<>>],
       [name |-> <<77>>,         kind |-> "dir",  birthtime |-> 1, mtime |-> 1,
        size |-> 0, kids |-> <<20>>],
       [name |-> <<100>>,        kind |-> "dir",  birthtime |-> 1, mtime |-> 1,
        size |-> 0, kids |-> <<21, 22>>],
       [name |-> <<112>>,        kind |-> "other", birthtime |-> 1, mtime |-> 1,
        size |-> 0, kids |-> <<>>],
       [name |-> <<122>>,        kind |-> "file", birthtime |-> 1, mtime |-> 1,
        size |-> 3, kids |-> <<>>] >>

\* What os.scandir(args.path) of main yields, in any order: "p" is a
\* directory that stays as it is, "q" one that changes while it is read, "r"
\* one that holds the directories T, L and M.
Paths == {"p", "q", "r"}

Listing(path) ==
    IF path = "p" THEN {1, 2, 3, 4}
    ELSE IF path = "q" THEN {1, 2, 3, 5}
    ELSE {9, 16, 19}

Nodes == {1, 2, 3, 4, 5, 9, 16, 19}

\* What the filesystem does to one operation: nothing, or an OSError from
\* os.scandir(node), from node.is_file()/is_dir(), or from node.stat().
NoFault == [op |-> "none", node |-> 0]

Faults ==
    {NoFault,
     [op |-> "scandir", node |-> 1], [op |-> "scandir", node |-> 7],
     [op |-> "is_file", node |-> 6], [op |-> "stat", node |-> 8]}

\* os.scandir(node) raises OSError.
ScandirFails(node, fault) ==
    \/ fault = [op |-> "scandir", node |-> node]
    \/ FS[node].kind # "dir"

\* p.is_file() raises OSError.
IsFileFails(node, fault) == fault = [op |-> "is_file", node |-> node]

\* p.stat() raises OSError.
StatFails(node, fault) == fault = [op |-> "stat", node |-> node]

\* ------------------------------------------------------------------- Entry

\* Entry.__init__: the Entry of a DirEntry, and whether building it raised.
Entry_init(node, fault) ==
    LET isdir == FS[node].kind = "dir"
    IN [exc |-> IF StatFails(node, fault) THEN "OSError" ELSE "none",
        entry |->
          [name |-> FS[node].name,
           path |-> node,
           isdir |-> isdir,
           ctime |-> FS[node].birthtime,
           mtime |-> FS[node].mtime,
           size |-> IF isdir THEN None ELSE FS[node].size,
           subfiles |-> IF isdir THEN None ELSE -2,
           subdirs |-> IF isdir THEN None ELSE -2]]

\* Entry.path: the name, with a slash after a directory's.
Entry_path(e) == e.name \o (IF e.isdir THEN <<47>> ELSE <<>>)

\* Entry.ext: the name from its last dot on; "" for directories.
Entry_ext(e) ==
    IF e.isdir \/ rfind(e.name, 46) = 0 THEN <<>>
    ELSE SubSeq(e.name, rfind(e.name, 46), Len(e.name))

\* datetime.fromtimestamp, in a zone one hour east of UTC, in seconds.
fromtimestamp(ts) == ts + 3600

Entry_ctime(e) == fromtimestamp(e.ctime)

Entry_mtime(e) == fromtimestamp(e.mtime)

\* The body of `for p in it` of _dir_process, from child i of kids on: acc
\* holds the three running totals, stack the paths still to scan.
RECURSIVE ForChildren(_, _, _, _, _)
ForChildren(kids, i, acc, stack, fault) ==
    IF i > Len(kids) THEN [acc |-> acc, stack |-> stack, exc |-> "none"]
    ELSE IF IsFileFails(kids[i], fault)
    THEN [acc |-> acc, stack |-> stack, exc |-> "OSError"]
    ELSE IF FS[kids[i]].kind = "file"
    THEN IF StatFails(kids[i], fault)
         THEN [acc |-> [acc EXCEPT !.subfiles = @ + 1], stack |-> stack,
               exc |-> "OSError"]
         ELSE ForChildren(kids, i + 1,
                          [acc EXCEPT !.subfiles = @ + 1,
                                      !.size = @ + FS[kids[i]].size],
                          stack, fault)
    ELSE ForChildren(kids, i + 1, [acc EXCEPT !.subdirs = @ + 1],
                     Append(stack, kids[i]), fault)

\* A failed scandir that marks the size alone.
ScandirFailedSizeOnly(acc) ==
    [acc |-> [acc EXCEPT !.size = -1],
     exc |-> "none", failed |-> TRUE, counted |-> acc.subfiles + acc.subdirs]

\* The body of `while stack` on a failed scandir.  The three fields are set to
\* -1 and the loop is left.
ScandirFailed(acc) ==
    [acc |-> [size |-> -1, subfiles |-> -1, subdirs |-> -1, scans |-> acc.scans],
     exc |-> "none", failed |-> TRUE, counted |-> acc.subfiles + acc.subdirs]

\* `it = os.scandir(stack.pop())` on `node` returned (ok) or raised: the call
\* is added to the calls of the pass.
Scan(acc, node, ok) ==
    [acc EXCEPT !.scans = Append(@, [node |-> node, ok |-> ok])]

\* The `while stack` loop of _dir_process; r is what the `for` of the
\* directory just scanned left.
RECURSIVE WhileStack(_, _, _)
AfterChildren(r, fault) ==
    IF r.exc # "none"
    THEN [acc |-> r.acc, exc |-> r.exc, failed |-> FALSE, counted |-> 0]
    ELSE WhileStack(r.stack, r.acc, fault)

WhileStack(stack, acc, fault) ==
    IF stack = <<>>
    THEN [acc |-> acc, exc |-> "none", failed |-> FALSE, counted |-> 0]
    ELSE IF ScandirFails(stack[Len(stack)], fault)
    THEN ScandirFailed(Scan(acc, stack[Len(stack)], FALSE))
    ELSE AfterChildren(ForChildren(FS[stack[Len(stack)]].kids, 1,
                                   Scan(acc, stack[Len(stack)], TRUE),
                                   SubSeq(stack, 1, Len(stack) - 1), fault),
                       fault)

\* The objects the program holds: w.entries maps the nodes whose Entry was
\* built to the Entry, w.passes counts the starts of _dir_process per Entry,
\* w.scanned the os.scandir calls of the passes per Entry,
\* w.enum_failed holds <<entry, children counted so far>> for every pass that
\* met a failed scandir, w.log is the sequence of steps of the operation
\* under way.

\* The fields of entry id once the loop of _dir_process is left with r.
Aggregated(w, id, r) ==
    [w |-> [w EXCEPT !.entries[id].size = r.acc.size,
                     !.entries[id].subfiles = r.acc.subfiles,
                     !.entries[id].subdirs = r.acc.subdirs,
                     !.passes[id] = @ + 1,
                     !.enum_failed =
                        IF r.failed THEN @ \cup {<<id, r.counted>>} ELSE @,
                     !.scanned[id] = @ \o r.acc.scans,
                     !.log = Append(@, IF r.exc = "none" THEN "_dir_process"
                                       ELSE "_dir_process raised")],
     exc |-> r.exc]

\* Entry._dir_process on entry id.
dir_process(w, id, fault) ==
    IF ~w.entries[id].isdir THEN [w |-> w, exc |-> "AssertionError"]
    ELSE Aggregated(w, id,
                    WhileStack(<<w.entries[id].path>>,
                               [size |-> 0, subfiles |-> 0, subdirs |-> 0,
                                scans |-> <<>>],
                               fault))

\* A getter that runs the pass again after a pass that failed.
NeedsPassOrFailed(field) == field = None \/ field = -1

\* Whether an aggregate getter has to run the pass first.
NeedsPass(field) == field = None

\* `if self._x is None: self._dir_process()` of the three getters.
EnsurePass(w, id, field, fault) ==
    IF NeedsPass(field) THEN dir_process(w, id, fault)
    ELSE [w |-> w, exc |-> "none"]

\* `return self._x` of the three getters, r being what EnsurePass left.
Return(r, id, x) ==
    [w |-> r.w, exc |-> r.exc, val |-> r.w.entries[id][x]]

\* Entry.size / Entry.subfiles / Entry.subdirs.
Entry_size(w, id, fault) ==
    Return(EnsurePass(w, id, w.entries[id].size, fault), id, "size")

Entry_subfiles(w, id, fault) ==
    Return(EnsurePass(w, id, w.entries[id].subfiles, fault), id, "subfiles")

Entry_subdirs(w, id, fault) ==
    Return(EnsurePass(w, id, w.entries[id].subdirs, fault), id, "subdirs")

\* --------------------------------------------------------------------- Key

Bool(b) == <<IF b THEN 1 ELSE 0>>

Key_name(e) == <<Bool(~e.isdir), casefold(e.name), e.name>>

Key_ext(e) == <<casefold(Entry_ext(e)), Entry_ext(e)>> \o Key_name(e)

Key_ctime(e) == <<<<Entry_ctime(e)>>>> \o Key_name(e)

Key_mtime(e) == <<<<Entry_mtime(e)>>>> \o Key_name(e)

\* Key.size / Key.subfiles / Key.subdirs call the getter, which may run the
\* pass; r is the getter's result.
Key_aggregate(r, id) ==
    [w |-> r.w, exc |-> r.exc, val |-> <<<<r.val>>>> \o Key_name(r.w.entries[id])]

\* The concrete sort keys.
Keys == {"name", "ext", "ctime", "mtime", "size", "subfiles", "subdirs"}

\* The key function `by` applied to entry id.
Key(by, w, id, fault) ==
    CASE by = "name"     -> [w |-> w, exc |-> "none", val |-> Key_name(w.entries[id])]
      [] by = "ext"      -> [w |-> w, exc |-> "none", val |-> Key_ext(w.entries[id])]
      [] by = "ctime"    -> [w |-> w, exc |-> "none", val |-> Key_ctime(w.entries[id])]
      [] by = "mtime"    -> [w |-> w, exc |-> "none", val |-> Key_mtime(w.entries[id])]
      [] by = "size"     -> Key_aggregate(Entry_size(w, id, fault), id)
      [] by = "subfiles" -> Key_aggregate(Entry_subfiles(w, id, fault), id)
      [] by = "subdirs"  -> Key_aggregate(Entry_subdirs(w, id, fault), id)

\* A Reversed that compares the other way round instead of negating.
Reversed_lt_swapped(a, b) == TupleLt(b, a)

\* Reversed.__lt__ of Key.reverse.
Reversed_lt(a, b) == ~TupleLt(a, b)

\* key(x) < key(y) for the session's key: a tuple, or a Reversed of one.
KeyLt(reversed, a, b) == IF reversed THEN Reversed_lt(a, b) ELSE TupleLt(a, b)

\* ------------------------------------------------------------------ Format

\* A string method's None result.
NoString == <<None>>

RECURSIVE Pow10(_)
Pow10(k) == IF k = 0 THEN 1 ELSE 10 * Pow10(k - 1)

\* a / b rounded to the nearest integer, ties to even (a >= 0, b > 0): what
\* f"{x:.kf}" and round(x, k) do to the exact value of a float.
RoundHalfEven(a, b) ==
    IF 2 * (a % b) > b \/ (2 * (a % b) = b /\ (a \div b) % 2 = 1)
    THEN (a \div b) + 1 ELSE a \div b

\* The digits of n, left-padded with zeros to k places (nothing when k = 0).
ZeroPad(n, k) ==
    IF k = 0 THEN <<>>
    ELSE Repeat(48, k - Len(Digits(n))) \o Digits(n)

\* f"{x:.kf}" of x = m / 10^d (d <= k): the integer part, a point, d places
\* and k - d zeros.
FixedPoint(m, d, k) ==
    Digits(m \div Pow10(d)) \o <<46>> \o ZeroPad(m % Pow10(d), d)
        \o Repeat(48, k - d)

\* str.rstrip(ch).
RECURSIVE rstrip(_, _)
rstrip(s, ch) ==
    IF s # <<>> /\ s[Len(s)] = ch THEN rstrip(SubSeq(s, 1, Len(s) - 1), ch) ELSE s

\* `Do padding` of _fixedlength: f"{s:>{length}}".
rjust(s, length) == Repeat(32, length - Len(s)) \o s

\* `Do culling` and `Do padding` of _fixedlength on s = f"{num:.{length}f}".
Cull(s, length) ==
    rjust(IF \E k \in 1..length : s[k] = 46
          THEN rstrip(rstrip(SubSeq(s, 1, length), 48), 46)
          ELSE SubSeq(s, 1, length),
          length)

\* `Do rounding` of _fixedlength once i = s.index(".") is known: d places
\* are kept.
Rounded(n, den, length, d) ==
    Cull(FixedPoint(RoundHalfEven(n * Pow10(d), den), d, length), length)

\* Format._fixedlength(num, length) for the float num = n / den (n >= 0, den
\* a power of two, so that the float holds the quotient exactly); i is the
\* place of the point in f"{num:.{length}f}".
FixedLengthAt(n, den, length, i) ==
    IF i > length THEN NoString
    ELSE Rounded(n, den, length, IF i < length THEN length - 1 - i ELSE 0)

fixedlength(n, den, length) ==
    FixedLengthAt(n, den, length,
        Len(Digits(RoundHalfEven(n * Pow10(length), den) \div Pow10(length))))

IsControlCode(c) == c \in 0..31 \/ c \in 127..159

HexDigit(d) == IF d < 10 THEN 48 + d ELSE 87 + d

\* repr(c)[1:-1] of a control code c.
ReprControl(c) ==
    CASE c = 9  -> <<92, 116>>
      [] c = 10 -> <<92, 110>>
      [] c = 13 -> <<92, 114>>
      [] OTHER  -> <<92, 120, HexDigit(c \div 16), HexDigit(c % 16)>>

RECURSIVE EscapeControls(_)
EscapeControls(s) ==
    IF s = <<>> THEN <<>>
    ELSE (IF IsControlCode(s[1]) THEN ReprControl(s[1]) ELSE <<s[1]>>)
         \o EscapeControls(Tail(s))

\* `Do standard quoting stuff` of Format.path with the quote q.
Quoted(path, q) ==
    <<q>> \o Replace(Replace(path, 92, <<92, 92>>), q, <<92, q>>) \o <<q>>

\* Format.path: quote a path that starts or ends with a space or a quote, or
\* holds a control code; then spell the control codes out.
Format_path(path) ==
    LET end_or_start(c) == path # <<>> /\ (path[1] = c \/ path[Len(path)] = c)
    IN EscapeControls(
         IF \/ end_or_start(32) \/ end_or_start(34) \/ end_or_start(39)
            \/ \E k \in 1..Len(path) : IsControlCode(path[k])
         THEN Quoted(path, IF \E k \in 1..Len(path) : path[k] = 39
                           THEN 34 ELSE 39)
         ELSE path)

\* PREFIXES of Format.number: "", k, M, G, T, P, E, Z, Y, R, Q.
PREFIXES == << <<>>, <<107>>, <<77>>, <<71>>, <<84>>, <<80>>, <<69>>, <<90>>,
               <<89>>, <<82>>, <<81>> >>

\* `while num >= limit and prefix < len(PREFIXES) - 1: num /= 1024`, on the
\* float n / den; prefix counts from 0.
RECURSIVE Magnitude(_, _, _, _)
Magnitude(n, den, prefix, limit) ==
    IF n >= limit * den /\ prefix < Len(PREFIXES) - 1
    THEN Magnitude(n, den * 1024, prefix + 1, limit)
    ELSE [n |-> n, den |-> den, prefix |-> prefix]

\* `Make the final number+prefix+unit` of Format.number: m is the scaled
\* number, P its prefix.  (`assert s is not None` can fail only for a
\* scaled value of 999.9995 and more, that is for num of 1048575476 and
\* more, beyond the numbers the model formats.)
Scaled(m, P, long, unit) ==
    LET special == ~long /\ P = <<>>
    IN fixedlength(m.n, m.den,
                   IF special /\ unit = <<>> THEN 4 ELSE IF long THEN 5 ELSE 3)
       \o (IF long
           THEN <<32>> \o P \o unit \o Repeat(32, 1 + Len(unit) - Len(P \o unit))
           ELSE IF special /\ unit = <<>> THEN <<>>
           ELSE IF special /\ Len(unit) = 1 THEN unit
           ELSE P \o Repeat(32, 1 - Len(P)))

\* Format.number past `if num < 0`, m being the scaled number.
Magnified(m, long, unit) ==
    IF m.n >= (IF long THEN 1024 ELSE 1000) * m.den
    THEN (IF long THEN <<32, 108, 111, 116, 115, 32>> \o unit \o <<32>>
          ELSE <<108, 111, 116, 115>>)
    ELSE Scaled(m, PREFIXES[m.prefix + 1], long, unit)

\* Format.number(num, long, unit) of an int num.
Format_number(num, long, unit) ==
    IF num < 0
    THEN (IF long
          THEN <<32, 63, 63, 63, 63, 32>>
               \o (IF unit # <<>> THEN <<63>> ELSE <<>>) \o <<32>>
          ELSE <<32, 63, 63, 63>>)
    ELSE Magnified(Magnitude(num, 1, 0, IF long THEN 1024 ELSE 1000), long, unit)

\* -------------------------------------------------------------------- main

\* pathstring of main on path = Format.path(e.path()): the path in the
\* colour of its kind, the extension in its own colour when args.extensions
\* is set.
Highlighted(path, isdir, args) ==
    LET col(cid, str) == Colour(~args.no_colour, cid, str)
        dot == rfind(path, 46)
    IN IF isdir THEN col(120, path)
       ELSE IF ~args.extensions \/ dot = 0 THEN col(80, path)
       ELSE IF path[1] = 39 \/ path[1] = 34
       THEN col(80, SubSeq(path, 1, dot - 1))
            \o col(220, SubSeq(path, dot, Len(path) - 1))
            \o col(80, <<path[Len(path)]>>)
       ELSE col(80, SubSeq(path, 1, dot - 1))
            \o col(220, SubSeq(path, dot, Len(path)))

pathstring(e, args) == Highlighted(Format_path(Entry_path(e)), e.isdir, args)

\* The size component of main: the formatted size in its colour.
sizestring(size, args) ==
    Colour(~args.no_colour, 43, Format_number(size, args.long_size, <<66>>))

\* tostr of main once e.size() returned r: the components joined.
Joined(r, id, args) ==
    [w |-> r.w, exc |-> r.exc,
     val |-> IF r.exc # "none" THEN <<>>
             ELSE <<32>> \o Join(<<32, 32>>,
                                 <<sizestring(r.val, args),
                                   pathstring(r.w.entries[id], args)>>)]

\* tostr of main with the attributes args asks for (of -c, -m, -n and -s the
\* model has -s and -S): the size, then the path.
tostr(w, id, args, fault) ==
    IF args.size \/ args.long_size
    THEN Joined(Entry_size(w, id, fault), id, args)
    ELSE [w |-> w, exc |-> "none", val |-> pathstring(w.entries[id], args)]

\* --------------------------------------------------------------------- PRS

\* list.insert(at, x) with a 0-based position: before element at, at the end
\* when at is past the end, counted from the end when at is negative.
ListInsert(list, at, x) ==
    LET k == IF at < 0 THEN Max2(0, Len(list) + at) ELSE Min2(at, Len(list))
    IN SubSeq(list, 1, k) \o <<x>> \o SubSeq(list, k + 1, Len(list))

\* [s for i, s in enumerate(list) if i in S], i counting from 0.
Keep(list, S) ==
    LET nth(j) == CHOOSE x \in S : Cardinality({y \in S : y < x}) = j - 1
    IN [j \in 1..Cardinality(S) |-> list[nth(j) + 1]]

\* PRS._max_width_of.
max_width_of(strings, cfg) ==
    Max2(cfg.min_width,
         MaxOf([k \in 1..Len(strings) |-> cons_length(strings[k])]) + cfg.padding)

\* `for i in range(missing): strings.insert(at, "")` of _contents, from i on.
RECURSIVE FillColumns(_, _, _, _, _)
FillColumns(strings, i, missing, rows, columns) ==
    IF i >= missing THEN strings
    ELSE FillColumns(
           ListInsert(strings, rows * (columns - 1 - missing + i) + rows - 1, <<>>),
           i + 1, missing, rows, columns)

\* `Pad to a square grid` of _contents.
PadGrid(strings, size) == strings \o Repeat(<<>>, size - Len(strings))

\* rows of _contents.
Rows(n, columns) == (n + columns - 1) \div columns

\* The grid without the blank cells that keep every column filled.
CellsUnfilled(strings, columns, cfg) ==
    PadGrid(strings, Rows(Len(strings), columns) * columns)

\* The list of cells of _contents for two or more columns: the strings, the
\* blank cells that keep every column filled, and the blank cells that
\* complete the grid.
Cells(strings, columns, cfg) ==
    LET rows == Rows(Len(strings), columns)
        filled_columns == (Len(strings) + rows - 1) \div rows
        missing_cols == columns - filled_columns
        missing == rows * columns - 1 - Len(strings)
    IN PadGrid(IF ~cfg.row_wise /\ missing_cols > 0
               THEN FillColumns(strings, 0, missing, rows, columns)
               ELSE strings,
               rows * columns)

\* columnat of _contents: the cells of column c, counted from 0.
columnat(cells, c, rows, columns, cfg) ==
    IF cfg.row_wise
    THEN Keep(cells, {i \in 0..(Len(cells) - 1) : i % columns = c})
    ELSE Keep(cells, {i \in 0..(Len(cells) - 1) : c * rows <= i /\ i < (c + 1) * rows})

\* rowat of _contents: the cells of row r, counted from 0.
rowat(cells, r, rows, columns, cfg) ==
    IF cfg.row_wise
    THEN Keep(cells, {i \in 0..(Len(cells) - 1) :
                        r * columns <= i /\ i < (r + 1) * columns})
    ELSE Keep(cells, {i \in 0..(Len(cells) - 1) : i % rows = r})

\* `Make width uniform if requested` of _contents.
Uniform(widths, columns, cfg) ==
    IF cfg.uniform_width
    THEN [c \in 1..columns |->
            IF c < columns THEN MaxOf(SubSeq(widths, 1, columns - 1))
            ELSE widths[c]]
    ELSE widths

\* The widths of the columns of a grid of cells.
Widths(cells, rows, columns, cfg) ==
    Uniform([c \in 1..columns |->
               max_width_of(columnat(cells, c - 1, rows, columns, cfg), cfg)],
            columns, cfg)

\* A budget check that refuses a total equal to the budget.
FitsStrictly(widths, cfg) == SumOf(widths) < cfg.max_total_width

\* Whether an arrangement with these widths is possible.
Fits(widths, cfg) == ~(SumOf(widths) > cfg.max_total_width)

\* The result of _contents for a grid and its widths; ok is FALSE for the
\* (None, None) result.
Arrange(cells, widths, rows, columns, cfg) ==
    IF ~Fits(widths, cfg)
    THEN [ok |-> FALSE, columns |-> columns, rows |-> <<>>, widths |-> <<>>]
    ELSE [ok |-> TRUE, columns |-> columns,
          rows |-> [r \in 1..rows |-> rowat(cells, r - 1, rows, columns, cfg)],
          widths |-> widths]

Grid(cells, rows, columns, cfg) ==
    Arrange(cells, Widths(cells, rows, columns, cfg), rows, columns, cfg)

\* PRS._contents: the rows of cells and the column widths for `columns`
\* columns.
contents(strings, columns, cfg) ==
    IF columns = 1
    THEN [ok |-> TRUE, columns |-> 1,
          rows |-> [k \in 1..Len(strings) |-> <<strings[k]>>],
          widths |-> <<max_width_of(strings, cfg)>>]
    ELSE Grid(Cells(strings, columns, cfg), Rows(Len(strings), columns), columns,
              cfg)

\* `for columns in range(self.max_columns, 0, -1)`, from `columns` down: the
\* first arrangement that works is taken.
RECURSIVE TryColumns(_, _, _)
Take(c, strings, cfg) ==
    IF c.ok THEN c ELSE TryColumns(strings, c.columns - 1, cfg)

TryColumns(strings, columns, cfg) ==
    Take(contents(strings, columns, cfg), strings, cfg)

\* One line of _lines: a leading space when there are several cells, every
\* cell but the last padded to its column's width.
Line(content, widths) ==
    (IF Len(content) > 1 THEN <<32>> ELSE <<>>)
    \o Join(<<>>, [k \in 1..(Len(content) - 1) |->
                     content[k]
                       \o Repeat(32, widths[k] - cons_length(content[k]))])
    \o content[Len(content)]

\* `Make each line as a string` of _lines.
LinesOf(c) == [r \in 1..Len(c.rows) |-> Line(c.rows[r], c.widths)]

\* The strings of the items.
Strings(its) == [k \in 1..Len(its) |-> its[k].string]

\* PRS._lines: the lines of the layout of the items.
lines(its, cfg) ==
    IF its = <<>> THEN <<>>
    ELSE LinesOf(TryColumns(Strings(its), cfg.max_columns, cfg))

\* A binary search that keeps the wrong half.
NarrowSwapped(lt, left, mid, right) ==
    IF lt THEN [left |-> left, right |-> mid]
    ELSE [left |-> mid + 1, right |-> right]

\* The step of the binary search: the half kept once key(items[mid]) <
\* key(elem) is known.
Narrow(lt, left, mid, right) ==
    IF lt THEN [left |-> mid + 1, right |-> right]
    ELSE [left |-> left, right |-> mid]

\* The `while left < right` loop of _bsearch; positions count from 0.  a and
\* b are the results of key(self.items[mid][0]) and key(elem), n the half
\* kept.
RECURSIVE BSearchLoop(_, _, _, _, _, _, _)
Resume(w, its, elem, n, cfg, fault) ==
    BSearchLoop(w, its, elem, n.left, n.right, cfg, fault)

Compare(a, b, its, elem, left, right, cfg, fault) ==
    IF b.exc # "none" THEN [w |-> b.w, exc |-> b.exc, val |-> left]
    ELSE Resume(b.w, its, elem,
                Narrow(KeyLt(cfg.reversed, a.val, b.val), left,
                       (left + right) \div 2, right),
                cfg, fault)

KeyOfElem(a, its, elem, left, right, cfg, fault) ==
    IF a.exc # "none" THEN [w |-> a.w, exc |-> a.exc, val |-> left]
    ELSE Compare(a, Key(cfg.key, a.w, elem, fault), its, elem, left, right, cfg,
                 fault)

BSearchLoop(w, its, elem, left, right, cfg, fault) ==
    IF ~(left < right) THEN [w |-> w, exc |-> "none", val |-> left]
    ELSE KeyOfElem(Key(cfg.key, w, its[(left + right) \div 2 + 1].entry, fault),
                   its, elem, left, right, cfg, fault)

\* PRS._bsearch.
bsearch(w, its, elem, cfg, fault) ==
    BSearchLoop(w, its, elem, 0, Len(its), cfg, fault)

\* ---------------------------------------------------------------- terminal

\* The terminal is t.screen, the rows written so far (scrollback included),
\* t.cursor, the row of the cursor, and t.top, the first row of the window,
\* which is cfg.term_lines rows high; t.painted holds the rows the session
\* under way has written.

\* cons.move_up: up by `by` rows, stopping at the top of the window.
move_up(t, by) ==
    IF by <= 0 THEN t ELSE [t EXCEPT !.cursor = Max2(t.top, t.cursor - by)]

\* cons.clear_line() then cons.write(line + "\n"): the row under the cursor
\* becomes the line, the cursor goes down a row and the window follows it.
write_line(t, line, term_lines) ==
    [screen |-> IF t.cursor > Len(t.screen) THEN Append(t.screen, line)
                ELSE [t.screen EXCEPT ![t.cursor] = line],
     cursor |-> t.cursor + 1,
     top |-> Max2(t.top, t.cursor + 1 - term_lines + 1),
     painted |-> t.painted \cup {t.cursor}]

RECURSIVE write_lines(_, _, _)
write_lines(t, ls, term_lines) ==
    IF ls = <<>> THEN t
    ELSE write_lines(write_line(t, ls[1], term_lines), Tail(ls), term_lines)

\* The first lines of the layout instead of the last: lines[:space].
FirstLines(ls, space) ==
    IF space > 0 THEN SubSeq(ls, 1, Min2(Len(ls), space)) ELSE <<>>

\* lines[-space:] when space > 0; nothing is written otherwise.
LastLines(ls, space) ==
    IF space > 0 THEN SubSeq(ls, Max2(1, Len(ls) - space + 1), Len(ls)) ELSE <<>>

\* The terminal steps of a paint, for the log.
PaintLog(by, n) ==
    (IF by > 0 THEN <<"move_up">> ELSE <<>>) \o Repeat("write", n)

\* ------------------------------------------------------------- PRS.insert

\* A throttle that also skips a repaint exactly `spacing` after the last.
ThrottledInclusive(prev_time, now, spacing) ==
    prev_time # None /\ now - prev_time <= spacing

\* Whether insert skips the repaint: the previous one was less than
\* `spacing` ago.
Throttled(prev_time, now, spacing) ==
    prev_time # None /\ now - prev_time < spacing

\* `Overwrite the previous print` of insert: the cursor goes up over the
\* previous print and the lines `shown` are written.
Overwrite(p, t, now, cfg, shown) ==
    [p |-> [p EXCEPT !.prev_time = now, !.prev_lines = Len(shown)],
     t |-> write_lines(move_up(t, p.prev_lines), shown, cfg.term_lines),
     log |-> PaintLog(p.prev_lines, Len(shown))]

\* `Reprint the elements` of insert: the last lines of the layout that fit
\* the window.
Repaint(p, t, now, cfg) ==
    Overwrite(p, t, now, cfg, LastLines(lines(p.items, cfg), cfg.term_lines - 1))

\* The first statement of insert: the place of the element (b is what
\* _bsearch returned), then its string (s is what tostr returned).
Located(b, s) ==
    IF s.exc # "none" THEN [w |-> s.w, exc |-> s.exc, idx |-> 0, string |-> <<>>]
    ELSE [w |-> [s.w EXCEPT !.log = Append(@, "tostr returned")],
          exc |-> "none", idx |-> b.val, string |-> s.val]

Render(b, elem, cfg, fault) ==
    IF b.exc # "none" THEN [w |-> b.w, exc |-> b.exc, idx |-> 0, string |-> <<>>]
    ELSE Located(b, tostr([b.w EXCEPT !.log = @ \o <<"_bsearch returned", "tostr">>],
                          elem, cfg.args, fault))

\* An insert that renders the string first and searches afterwards.
Searched(b, s) ==
    IF b.exc # "none" THEN [w |-> b.w, exc |-> b.exc, idx |-> 0, string |-> <<>>]
    ELSE [w |-> [b.w EXCEPT !.log = Append(@, "_bsearch returned")],
          exc |-> "none", idx |-> b.val, string |-> s.val]

SearchAfter(s, its, elem, cfg, fault) ==
    IF s.exc # "none" THEN [w |-> s.w, exc |-> s.exc, idx |-> 0, string |-> <<>>]
    ELSE Searched(bsearch([s.w EXCEPT !.log = @ \o <<"tostr returned", "_bsearch">>],
                          its, elem, cfg, fault), s)

LocateStringFirst(w, its, elem, cfg, fault) ==
    SearchAfter(tostr([w EXCEPT !.log = Append(@, "tostr")], elem, cfg.args, fault),
                its, elem, cfg, fault)

Locate(w, its, elem, cfg, fault) ==
    Render(bsearch([w EXCEPT !.log = Append(@, "_bsearch")], its, elem, cfg, fault),
           elem, cfg, fault)

\* insert from `Don't print running if not requested` on: w, p are the
\* objects and the PRS with the element in the list.
Painted(w, r) ==
    [w |-> [w EXCEPT !.log = @ \o r.log], p |-> r.p, t |-> r.t, exc |-> "none",
     read |-> TRUE]

Show(w, p, t, cfg, now) ==
    IF cfg.no_running
    THEN [w |-> w, p |-> p, t |-> t, exc |-> "none", read |-> FALSE]
    ELSE IF Throttled(p.prev_time, now, cfg.spacing)
    THEN [w |-> w, p |-> p, t |-> t, exc |-> "none", read |-> TRUE]
    ELSE Painted(w, Repaint(p, t, now, cfg))

\* `self.items.insert(idx, (elem, self.tostr(elem)))`, l being the place and
\* the string.
Place(l, p, t, elem, cfg, now) ==
    IF l.exc # "none"
    THEN [w |-> l.w, p |-> p, t |-> t, exc |-> l.exc, read |-> FALSE]
    ELSE Show([l.w EXCEPT !.log = Append(@, "items.insert")],
              [p EXCEPT !.items =
                 ListInsert(@, l.idx, [entry |-> elem, string |-> l.string])],
              t, cfg, now)

\* PRS.insert(elem) at clock reading `now` (read only when the insert gets
\* to it).  p is the PRS object: items, items_is_none, prev_lines, prev_time.
PRS_insert(w, p, t, elem, cfg, now, fault) ==
    IF p.items_is_none
    THEN [w |-> w, p |-> p, t |-> t, exc |-> "AssertionError", read |-> FALSE]
    ELSE Place(Locate(w, p.items, elem, cfg, fault), p, t, elem, cfg, now)

\* `if etype is None` of __exit__: the cursor goes up over the previous
\* print and the whole layout ls is written.
FinalPaint(p, t, ls, cfg) ==
    [t |-> write_lines(move_up(t, p.prev_lines), ls, cfg.term_lines),
     log |-> PaintLog(p.prev_lines, Len(ls))]

\* `Reset the container` of __exit__, r being the terminal as __exit__
\* leaves it.
Reset(r) ==
    [p |-> [items |-> <<>>, items_is_none |-> TRUE, prev_lines |-> 0,
            prev_time |-> None],
     t |-> r.t, log |-> r.log]

\* An __exit__ that paints whatever ended the session.
PRS_exit_always(p, t, etype, cfg) ==
    Reset(FinalPaint(p, t, lines(p.items, cfg), cfg))

\* PRS.__exit__ with the exception etype, "none" for None.
PRS_exit(p, t, etype, cfg) ==
    Reset(IF etype = "none" THEN FinalPaint(p, t, lines(p.items, cfg), cfg)
          ELSE [t |-> t, log |-> <<>>])

\* PRS.__enter__.
PRS_enter(p) ==
    [items |-> <<>>, items_is_none |-> FALSE, prev_lines |-> 0,
     prev_time |-> None]

\* ------------------------------------------------------------------- state

VARIABLES
    cfg,            \* PRS's constructor arguments, main's args, the window height
    entries,        \* the Entry objects built so far, by node
    passes,         \* how many times _dir_process started, by node
    enum_failed,    \* the passes that met a failed scandir
    scanned,        \* the os.scandir calls of _dir_process, by node of the Entry
    log,            \* the steps of the last operation, in order
    items,          \* PRS.items: the list of (entry, string)
    items_is_none,  \* PRS.items is None: no session is open
    prev_lines,     \* PRS.prev_lines
    prev_time,      \* PRS.prev_time
    screen,         \* the rows of the terminal
    cursor,         \* the row of the cursor
    top,            \* the first row of the window
    painted,        \* the rows the session has written
    clock,          \* the last reading of datetime.now()
    exc,            \* the exception unwinding the session body
    caught,         \* the exception raised to the caller since the last __enter__
    arrived,        \* the entries inserted in the session, in arrival order
    sessions,       \* the sessions opened so far
    call            \* the last call of a function on its own, and its result

vars == <<cfg, entries, passes, enum_failed, scanned, log, items, items_is_none,
          prev_lines, prev_time, screen, cursor, top, painted, clock, exc,
          caught, arrived, sessions, call>>

\* PRS's defaults scaled down to the names of FS (100, 16 and 5 columns of
\* text become 7, 3 and 1; 0.1 s becomes one tick), a listing of the paths
\* of directory p, without colour, in a window of 6 rows.
Base ==
    [key |-> "name", reversed |-> FALSE, max_total_width |-> 7, min_width |-> 3,
     padding |-> 1, max_columns |-> 2, no_running |-> FALSE, row_wise |-> FALSE,
     uniform_width |-> FALSE, spacing |-> 1, term_lines |-> 6,
     args |-> [path |-> "p", size |-> FALSE, long_size |-> FALSE,
               extensions |-> FALSE, no_colour |-> TRUE, files |-> FALSE,
               directories |-> FALSE]]

\* PRS's defaults as the constructor has them.
Defaults ==
    [Base EXCEPT !.max_total_width = 100, !.min_width = 16, !.padding = 5,
                 !.max_columns = 4]

\* Runs that sort: every key, forward and reversed, on directory q, painted
\* at the end only.
Sorting ==
    {[Base EXCEPT !.key = k, !.reversed = r, !.no_running = TRUE, !.args.path = "q"] :
       k \in Keys, r \in BOOLEAN}

\* Runs that paint while they go: variations of the layout, of the window,
\* of the displayed attributes and of the filter.
Running ==
    {Base,
     [Base EXCEPT !.max_columns = 1, !.args.size = TRUE, !.args.extensions = TRUE,
                  !.args.no_colour = FALSE],
     [Base EXCEPT !.max_columns = 4, !.max_total_width = 13,
                  !.uniform_width = TRUE, !.spacing = 2],
     [Base EXCEPT !.max_columns = 3, !.max_total_width = 10, !.row_wise = TRUE,
                  !.args.files = TRUE],
     [Base EXCEPT !.term_lines = 1],
     [Base EXCEPT !.term_lines = 3, !.reversed = TRUE],
     [Base EXCEPT !.key = "subdirs", !.args.long_size = TRUE]}

Profiles == Sorting \cup Running

\* The state after construction, under one of the configurations.
Start(profiles) ==
    /\ cfg \in profiles
    /\ entries = <<>>
    /\ passes = [n \in Nodes |-> 0]
    /\ enum_failed = {}
    /\ scanned = [n \in Nodes |-> <<>>]
    /\ log = <<>>
    /\ items = <<>>
    /\ items_is_none = TRUE
    /\ prev_lines = None
    /\ prev_time = None
    /\ screen = <<>>
    /\ cursor = 1
    /\ top = 1
    /\ painted = {}
    /\ clock = 0
    /\ exc = "none"
    /\ caught = "none"
    /\ arrived = <<>>
    /\ sessions = 0
    /\ call = [fn |-> "none"]

Init == Start(Profiles)

\* The objects, the PRS and the terminal of the current state.
World == [entries |-> entries, passes |-> passes, enum_failed |-> enum_failed,
          scanned |-> scanned, log |-> <<>>]

Prs == [items |-> items, items_is_none |-> items_is_none,
        prev_lines |-> prev_lines, prev_time |-> prev_time]

Term == [screen |-> screen, cursor |-> cursor, top |-> top, painted |-> painted]

SetObjects(w) ==
    /\ entries' = w.entries
    /\ passes' = w.passes
    /\ enum_failed' = w.enum_failed
    /\ scanned' = w.scanned
    /\ log' = w.log

SetPrs(p) ==
    /\ items' = p.items
    /\ items_is_none' = p.items_is_none
    /\ prev_lines' = p.prev_lines
    /\ prev_time' = p.prev_time

SetTerm(t) ==
    /\ screen' = t.screen
    /\ cursor' = t.cursor
    /\ top' = t.top
    /\ painted' = t.painted

\* An operation ends with the exception e ("none": it returns).  Inside a
\* session an exception unwinds the with statement, outside it reaches the
\* caller.
Outcome(e) ==
    /\ exc' = IF items_is_none THEN "none" ELSE e
    /\ caught' = IF items_is_none /\ e # "none" THEN e ELSE caught

\* cull of main: the filter of -f and -d.
cull(e, args) == (args.files /\ e.isdir) \/ (args.directories /\ ~e.isdir)

\* Whether an operation on the entries ids can meet the fault: a fault below
\* a directory is met only by a pass, and a pass runs only for a directory
\* Entry that had none.
Meets(fault, w, ids) ==
    fault = NoFault \/ \E id \in ids : w.entries[id].size = None

\* PRS.__enter__ (`with prs`).
Enter ==
    /\ items_is_none
    /\ sessions < MaxSessions
    /\ sessions' = sessions + 1
    /\ SetPrs(PRS_enter(Prs))
    /\ painted' = {}
    /\ arrived' = <<>>
    /\ log' = <<>>
    /\ caught' = "none"
    /\ UNCHANGED <<cfg, entries, passes, enum_failed, scanned,
                   screen, cursor, top, clock,
                   exc, call>>

\* prs.insert(p) returned or raised: r is its result.
Inserted(r, p, now) ==
    /\ SetObjects(r.w)
    /\ SetPrs(r.p)
    /\ SetTerm(r.t)
    /\ clock' = IF r.read THEN now ELSE clock
    /\ arrived' = IF r.exc = "none" THEN Append(arrived, p) ELSE arrived
    /\ Outcome(r.exc)

\* main's loop from `if cull(e)` on, w holding the new Entry.
Body(w, p, now, fault) ==
    /\ Meets(fault, w, DOMAIN w.entries)
    /\ IF cull(w.entries[p], cfg.args)
       THEN /\ SetObjects(w)
            /\ UNCHANGED <<items, items_is_none, prev_lines, prev_time, screen,
                           cursor, top, painted, clock, exc, caught, arrived>>
       ELSE Inserted(PRS_insert(w, Prs, Term, p, cfg, now, fault), p, now)

\* `e = Entry(p)` of main's loop left `made`.
Built(made, p, now, fault) ==
    IF made.exc # "none"
    THEN /\ Outcome(made.exc)
         /\ log' = <<>>
         /\ UNCHANGED <<entries, passes, enum_failed, scanned,
                        items, items_is_none,
                        prev_lines, prev_time, screen, cursor, top, painted,
                        clock, arrived>>
    ELSE Body([World EXCEPT !.entries = p :> made.entry @@ @], p, now, fault)

\* One turn of main's loop on DirEntry p: e = Entry(p); unless culled,
\* prs.insert(e).
LoopBody(p, fault, delta) ==
    /\ ~items_is_none /\ exc = "none"
    /\ p \in Listing(cfg.args.path) \ DOMAIN entries
    /\ Built(Entry_init(p, fault), p, clock + delta, fault)
    /\ UNCHANGED <<cfg, sessions, call>>

\* The with statement ends: __exit__ returned r.
Exited(r) ==
    /\ SetPrs(r.p)
    /\ SetTerm(r.t)
    /\ log' = r.log

\* The with statement ends: PRS.__exit__ with the exception that unwinds the
\* body, or with none; __exit__ returns False, so the exception goes on to
\* the caller.
Exit ==
    /\ ~items_is_none
    /\ Exited(PRS_exit(Prs, Term, exc, cfg))
    /\ caught' = IF exc # "none" THEN exc ELSE caught
    /\ exc' = "none"
    /\ UNCHANGED <<cfg, entries, passes, enum_failed, scanned,
                   clock, arrived, sessions,
                   call>>

\* prs.insert(e) called while no session is open.
InsertClosed(id) ==
    /\ items_is_none
    /\ id \in DOMAIN entries
    /\ Inserted(PRS_insert(World, Prs, Term, id, cfg, clock, NoFault), id, clock)
    /\ UNCHANGED <<cfg, sessions, call>>

\* main: the session, the loop over the listing, the exit; and inserts that
\* come when no session is open.
Next ==
    \/ Enter
    \/ \E p \in Nodes, delta \in 0..MaxDelta :
         \E fault \in Faults \cup {[op |-> "stat", node |-> p]} :
           LoopBody(p, fault, delta)
    \/ Exit
    \/ \E id \in Nodes : InsertClosed(id)

Spec == Init /\ [][Next]_vars

\* ------------------------------------------------------- Entry on its own

\* e = Entry(p) outside any session.
Construct(p, fault) ==
    /\ p \in Listing(cfg.args.path) \ DOMAIN entries
    /\ IF Entry_init(p, fault).exc # "none"
       THEN entries' = entries
       ELSE entries' = p :> Entry_init(p, fault).entry @@ entries
    /\ Outcome(Entry_init(p, fault).exc)
    /\ log' = <<>>
    /\ call' = [fn |-> "Entry", id |-> p]
    /\ UNCHANGED <<cfg, passes, enum_failed, scanned,
                   items, items_is_none, prev_lines,
                   prev_time, screen, cursor, top, painted, clock, arrived,
                   sessions>>

\* A call of e.size(), e.subfiles() or e.subdirs() returned or raised r.
Called(r, fn, id) ==
    /\ SetObjects(r.w)
    /\ Outcome(r.exc)
    /\ call' = [fn |-> fn, id |-> id, exc |-> r.exc,
                val |-> IF r.exc = "none" THEN r.val ELSE None]
    /\ UNCHANGED <<cfg, items, items_is_none, prev_lines, prev_time, screen,
                   cursor, top, painted, clock, arrived, sessions>>

CallSize(id, fault) ==
    /\ id \in DOMAIN entries /\ Meets(fault, World, {id})
    /\ Called(Entry_size(World, id, fault), "size", id)

CallSubfiles(id, fault) ==
    /\ id \in DOMAIN entries /\ Meets(fault, World, {id})
    /\ Called(Entry_subfiles(World, id, fault), "subfiles", id)

CallSubdirs(id, fault) ==
    /\ id \in DOMAIN entries /\ Meets(fault, World, {id})
    /\ Called(Entry_subdirs(World, id, fault), "subdirs", id)

NextEntry ==
    \/ \E p \in Nodes : \E fault \in {NoFault, [op |-> "stat", node |-> p]} :
         Construct(p, fault)
    \/ \E id \in Nodes, fault \in Faults : CallSize(id, fault)
    \/ \E id \in Nodes, fault \in Faults : CallSubfiles(id, fault)
    \/ \E id \in Nodes, fault \in Faults : CallSubdirs(id, fault)

\* Entries built and queried in any order, with any fault.
SpecEntry == Start({Base, [Base EXCEPT !.args.path = "q"]}) /\ [][NextEntry]_vars

\* ------------------------------------------------ passes over deeper trees

\* The faults met below T, L and M: none, or an OSError from os.scandir of
\* the directory v of T or of the directory d of M.
TreeFaults ==
    {NoFault, [op |-> "scandir", node |-> 14], [op |-> "scandir", node |-> 20]}

NextTree ==
    \/ \E p \in Nodes : Construct(p, NoFault)
    \/ \E id \in Nodes, fault \in TreeFaults : CallSize(id, fault)
    \/ \E id \in Nodes, fault \in TreeFaults : CallSubfiles(id, fault)
    \/ \E id \in Nodes, fault \in TreeFaults : CallSubdirs(id, fault)

\* The Entries of T, L and M built and queried in any order.
SpecTree ==
    /\ Start({[Base EXCEPT !.args.path = "r", !.key = k] :
                k \in {"name", "size", "subfiles", "subdirs"}})
    /\ [][NextTree]_vars

\* ------------------------------------------------------ _lines on its own

\* The strings laid out: a, b.a, one wider than Base's budget, and a in
\* colour.
Words == {<<97>>, <<98, 46, 97>>, Repeat(97, 8), Colour(TRUE, 80, <<97>>)}

RECURSIVE ListsOf(_)
ListsOf(n) ==
    IF n = 0 THEN {<<>>}
    ELSE {Append(l, x) : l \in ListsOf(n - 1), x \in Words}

\* The lists of strings handed to _lines: every list of one to MaxItems
\* words, and 37 strings of ten characters.
Lists ==
    UNION {ListsOf(n) : n \in 1..MaxItems} \cup {Repeat(Repeat(97, 10), 37)}

\* The layouts tried.
Layouts ==
    {Base, Defaults,
     [Base EXCEPT !.max_columns = 4, !.max_total_width = 13, !.uniform_width = TRUE],
     [Base EXCEPT !.max_columns = 3, !.max_total_width = 10, !.row_wise = TRUE],
     [Base EXCEPT !.max_columns = 3, !.max_total_width = 12],
     [Base EXCEPT !.max_columns = 1]}

\* prs._lines() with the strings as the items' strings.
CallLines(strings) ==
    /\ call.fn = "none"
    /\ call' = [fn |-> "_lines", strings |-> strings,
                lines |-> lines([k \in 1..Len(strings) |->
                                   [entry |-> 0, string |-> strings[k]]], cfg)]
    /\ UNCHANGED <<cfg, entries, passes, enum_failed, scanned,
                   log, items, items_is_none,
                   prev_lines, prev_time, screen, cursor, top, painted, clock,
                   exc, caught, arrived, sessions>>

NextLines == \E strings \in Lists : CallLines(strings)

SpecLines == Start(Layouts) /\ [][NextLines]_vars

\* ------------------------------------------- sessions in short terminals

\* Running sessions whose layout can have more lines than the terminal
\* leaves room for: heights of 3, 2 and 1 lines, and the height of Base.
Clamping ==
    {Base,
     [Base EXCEPT !.term_lines = 3, !.max_columns = 1],
     [Base EXCEPT !.term_lines = 3, !.max_columns = 1, !.args.path = "q",
                  !.key = "size", !.reversed = TRUE],
     [Base EXCEPT !.term_lines = 2],
     [Base EXCEPT !.term_lines = 1, !.max_columns = 1]}

SpecClamp == Start(Clamping) /\ [][Next]_vars

\* --------------------------------------------------- _contents on its own

\* Distinct one-character strings in sorted order: a, b, c, ...
Ordered(n) == [k \in 1..n |-> <<96 + k>>]

\* The lists handed to _contents: the lists of _lines, and the lists of one
\* to 3 * MaxItems distinct strings.
Grids == Lists \cup {Ordered(n) : n \in 1..(3 * MaxItems)}

\* The column counts tried, above one: up to the default max_columns and two
\* more.
Candidates == 2..(Defaults.max_columns + 2)

\* prs._contents(strings, columns): cells is the local list `strings` when
\* the widths are computed.
CallContents(strings, columns) ==
    /\ call.fn = "none"
    /\ call' = [fn |-> "_contents", strings |-> strings, columns |-> columns,
                rows |-> Rows(Len(strings), columns),
                cells |-> Cells(strings, columns, cfg)]
    /\ UNCHANGED <<cfg, entries, passes, enum_failed, scanned,
                   log, items, items_is_none,
                   prev_lines, prev_time, screen, cursor, top, painted, clock,
                   exc, caught, arrived, sessions>>

NextContents ==
    \E strings \in Grids : \E columns \in Candidates :
      CallContents(strings, columns)

SpecContents == Start(Layouts) /\ [][NextContents]_vars

\* ------------------------------------------------ _fixedlength on its own

\* How many of the scaled values just below a limit are tried.
MaxNear == 600

\* The calls Format._fixedlength(n / den, length) tried: every half below
\* 1000 and the values n / 1024 just below 1000 in 3 characters (the scaled
\* values of the short form of Format.number), one value above 999.9995, the
\* integers below 1000 in 4 characters (the short form without prefix and
\* unit), and sixteenths up to 1024 in 5 characters (the long form).
FixedInputs ==
    {[n |-> n, den |-> 2, length |-> 3] : n \in 0..(2 * 1000 - 1)}
      \cup {[n |-> n, den |-> 1024, length |-> 3] :
              n \in (1024 * 1000 - MaxNear)..(1024 * 1000 - 1)}
      \cup {[n |-> 2047999, den |-> 2048, length |-> 3]}
      \cup {[n |-> n, den |-> 1, length |-> 4] : n \in 0..(1000 - 1)}
      \cup {[n |-> n, den |-> 16, length |-> 5] :
              n \in 0..MaxNear \cup (16 * 1024 - MaxNear)..(16 * 1024 - 1)}

\* Format._fixedlength(n / den, length) called.
CallFixedLength(in) ==
    /\ call.fn = "none"
    /\ call' = [fn |-> "_fixedlength", n |-> in.n, den |-> in.den,
                length |-> in.length,
                val |-> fixedlength(in.n, in.den, in.length)]
    /\ UNCHANGED <<cfg, entries, passes, enum_failed, scanned, log, items,
                   items_is_none, prev_lines, prev_time, screen, cursor, top,
                   painted, clock, exc, caught, arrived, sessions>>

NextFixed == \E in \in FixedInputs : CallFixedLength(in)

SpecFixed == Start({Base}) /\ [][NextFixed]_vars

\* ------------------------------------------------------------------ claims

\* The Entry an item of the list holds.
EntryAt(k) == entries[items[k].entry]

\* The attribute a key sorts by, as a tuple; the name key has none.
Primary(by, e) ==
    CASE by = "name"     -> <<>>
      [] by = "ext"      -> <<casefold(Entry_ext(e)), Entry_ext(e)>>
      [] by = "ctime"    -> <<<<Entry_ctime(e)>>>>
      [] by = "mtime"    -> <<<<Entry_mtime(e)>>>>
      [] by = "size"     -> <<<<e.size>>>>
      [] by = "subfiles" -> <<<<e.subfiles>>>>
      [] by = "subdirs"  -> <<<<e.subdirs>>>>

\* a comes strictly before b: by the attribute, then directories before
\* files, then by case-folded name, then by exact name.
Precedes(by, a, b) ==
    \/ TupleLt(Primary(by, a), Primary(by, b))
    \/ /\ Primary(by, a) = Primary(by, b)
       /\ \/ a.isdir /\ ~b.isdir
          \/ /\ a.isdir = b.isdir
             /\ \/ StrLt(casefold(a.name), casefold(b.name))
                \/ /\ casefold(a.name) = casefold(b.name)
                   /\ StrLt(a.name, b.name)

\* C1: in an open session the list is sorted by the active key after every
\* insert, whatever the arrival order: no item strictly precedes the item
\* before it (under a reversed key: the item after it), where the order is
\* by the key's attribute, then directories before files, then case-folded
\* name, then exact name.
C1_Sorted ==
    ~items_is_none =>
      \A k \in 1..(Len(items) - 1) :
        IF cfg.reversed THEN ~Precedes(cfg.key, EntryAt(k), EntryAt(k + 1))
        ELSE ~Precedes(cfg.key, EntryAt(k + 1), EntryAt(k))

\* Four entries, the directory among them, sorted by size after arriving in
\* another order.
C1_Witness ==
    /\ ~items_is_none /\ cfg.key = "size" /\ ~cfg.reversed
    /\ Len(items) = 4
    /\ \E k \in 1..4 : items[k].entry = 1 /\ EntryAt(k).size > 0
    /\ arrived # [k \in 1..4 |-> items[k].entry]

\* C2: when a session exits normally, the rows the session has written
\* hold exactly the lines of the layout of the full list: the final paint
\* covers every row an earlier repaint of the session wrote.
C2_FinalPaintCovers ==
    [][(~items_is_none /\ items_is_none' /\ exc = "none") =>
         LET final == lines(items, cfg)
         IN /\ painted' \subseteq (cursor' - Len(final))..(cursor' - 1)
            /\ SubSeq(screen', cursor' - Len(final), cursor' - 1) = final]_vars

\* Whether the three aggregate fields are marked failed, or hold counts.
AllFailed(e) == e.size = -1 /\ e.subfiles = -1 /\ e.subdirs = -1

AllCounted(e) == e.size >= 0 /\ e.subfiles >= 0 /\ e.subdirs >= 0

\* C3: once a pass has run for a directory Entry its three aggregate fields
\* are all -1 or all non-negative, and all -1 when a scandir of the subtree
\* failed, whatever had been counted before.
C3_AllOrNothing ==
    \A id \in DOMAIN entries :
      (entries[id].isdir /\ passes[id] > 0) =>
        /\ AllFailed(entries[id]) \/ AllCounted(entries[id])
        /\ (\E pr \in enum_failed : pr[1] = id) => AllFailed(entries[id])

\* A getter returned -1 for a directory whose nested directory failed to
\* enumerate after children had been counted.
C3_Witness ==
    /\ \E pr \in enum_failed : pr[1] = 1 /\ pr[2] > 0
    /\ call.fn \in {"size", "subfiles", "subdirs"} /\ call.id = 1
    /\ call.val = -1

\* C4: no filesystem failure met by a pass is raised out of it: the pass
\* never ends by raising, so no session is aborted by one.
C4_PassNeverRaises ==
    \A k \in 1..Len(log) : log[k] # "_dir_process raised"

\* The list a forward session builds from the first n arrivals.
RECURSIVE ForwardItems(_)
ForwardItems(n) ==
    IF n = 0 THEN <<>>
    ELSE ListInsert(ForwardItems(n - 1),
                    bsearch(World, ForwardItems(n - 1), arrived[n],
                            [cfg EXCEPT !.reversed = FALSE], NoFault).val,
                    [entry |-> arrived[n], string |-> <<>>])

\* C5: the list of a session keyed by Key.reverse(k) is the element-wise
\* reversal of the list a session keyed by k builds from the same entries in
\* the same arrival order, entries with equal key tuples included.
C5_Reversal ==
    (~items_is_none /\ cfg.reversed) =>
      /\ Len(items) = Len(arrived)
      /\ \A k \in 1..Len(items) :
           items[k].entry = ForwardItems(Len(arrived))[Len(items) + 1 - k].entry

\* A reversed session holding both entries named a, whose tuples are equal.
C5_Witness ==
    /\ ~items_is_none /\ cfg.reversed /\ cfg.key = "name"
    /\ Len(items) = 4
    /\ \E i, j \in 1..4 : i < j /\ arrived[i] = 2 /\ arrived[j] = 5

\* C6: when the session ends by an exception, __exit__ leaves the terminal
\* as it is, hands the exception on and resets the session; and while no
\* session is open no insert changes the list or the terminal.
C6_AbortLeavesScreen ==
    [][/\ (~items_is_none /\ items_is_none' /\ exc # "none") =>
            /\ UNCHANGED <<screen, cursor, top, painted>>
            /\ caught' = exc
            /\ prev_time' = None
       /\ (items_is_none /\ items_is_none') =>
            UNCHANGED <<items, screen, cursor, top, painted>>]_vars

\* A session that had painted rows was ended by an OSError.
C6_Witness ==
    /\ items_is_none /\ painted # {} /\ screen # <<>>
    /\ caught = "OSError"

\* The lines an incremental repaint writes.
Shown(its) == LastLines(lines(its, cfg), cfg.term_lines - 1)

\* C7: an insert that succeeds adds the item; in running mode it repaints
\* exactly when the session has not repainted yet or `spacing` has passed
\* since the time of the previous repaint, and otherwise leaves prev_time,
\* prev_lines and the terminal alone; in final-only mode it never writes.
C7_Throttle ==
    [][(~items_is_none /\ Len(arrived') = Len(arrived) + 1) =>
         /\ Len(items') = Len(items) + 1
         /\ IF cfg.no_running
            THEN UNCHANGED <<screen, cursor, top, painted, prev_time, prev_lines>>
            ELSE IF prev_time = None \/ clock' - prev_time >= cfg.spacing
            THEN LET shown == Shown(items')
                 IN /\ prev_time' = clock'
                    /\ prev_lines' = Len(shown)
                    /\ SubSeq(screen', cursor' - Len(shown), cursor' - 1) = shown
            ELSE UNCHANGED <<screen, cursor, top, painted, prev_time,
                             prev_lines>>]_vars

\* An insert whose repaint was skipped, after one that repainted.
C7_Witness ==
    /\ ~items_is_none /\ ~cfg.no_running
    /\ Len(items) = 3 /\ prev_time # None /\ prev_lines > 0
    /\ log # <<>> /\ log[Len(log)] = "items.insert"

\* The column counts of 2 and more whose widths fit the budget.
Feasible(strings) ==
    {c \in 2..cfg.max_columns :
       SumOf(Widths(Cells(strings, c, cfg), Rows(Len(strings), c), c, cfg))
         <= cfg.max_total_width}

Largest(S) == CHOOSE c \in S : \A d \in S : d <= c

\* The layout of the strings in c columns.
LayoutIn(strings, c) == LinesOf(contents(strings, c, cfg))

\* C8: _lines of a non-empty list produces a layout in the largest number of
\* columns from 2 to max_columns whose widths sum to max_total_width at
\* most, and in one column when there is none; 37 strings of ten characters
\* under the defaults come out in 4 columns, that is in 10 lines.
C8_LargestFeasible ==
    call.fn = "_lines" =>
      /\ call.lines # <<>>
      /\ call.lines =
           LayoutIn(call.strings,
                    IF Feasible(call.strings) = {} THEN 1
                    ELSE Largest(Feasible(call.strings)))
      /\ (cfg = Defaults /\ Len(call.strings) = 37) => Len(call.lines) = 10

\* Three strings under a budget that two columns meet exactly and three
\* columns exceed.
C8_Witness ==
    /\ call.fn = "_lines" /\ Len(call.strings) = 3
    /\ cfg.max_columns = 3
    /\ Feasible(call.strings) = {2}
    /\ SumOf(Widths(Cells(call.strings, 2, cfg), 2, 2, cfg)) = cfg.max_total_width
    /\ Len(call.lines) = 2

\* C9: the pass starts at most once per Entry and never for a file; once an
\* Entry holds its aggregate fields no call changes them, and a getter
\* returns the field; a file holds the size read at construction and -2, -2.
C9_Memoized ==
    [][/\ \A id \in Nodes : passes'[id] <= 1
       /\ \A id \in DOMAIN entries :
            entries[id].size # None =>
              /\ id \in DOMAIN entries'
              /\ entries'[id] = entries[id]
              /\ passes'[id] = passes[id]
       /\ \A id \in DOMAIN entries' :
            ~entries'[id].isdir =>
              /\ passes'[id] = 0
              /\ entries'[id].size = FS[id].size
              /\ entries'[id].subfiles = -2
              /\ entries'[id].subdirs = -2
       /\ (call'.fn \in {"size", "subfiles", "subdirs"} /\ call' # call) =>
            /\ call'.exc # "AssertionError"
            /\ call'.exc = "none" => call'.val = entries'[call'.id][call'.fn]]_vars

\* A getter returned the cached -1 of a directory whose one pass had failed,
\* without another pass.
C9_Witness ==
    /\ 1 \in DOMAIN entries /\ passes[1] = 1 /\ AllFailed(entries[1])
    /\ call.fn = "subfiles" /\ call.id = 1 /\ call.val = -1
    /\ log = <<>>

\* The first place of a step in the log, 0 when absent.
Pos(ev) ==
    IF \E k \in 1..Len(log) : log[k] = ev
    THEN CHOOSE k \in 1..Len(log) : log[k] = ev /\ \A j \in 1..(k - 1) : log[j] # ev
    ELSE 0

TerminalStep(ev) == ev \in {"move_up", "write"}

\* C10 as stated: tostr has returned before the binary search starts, and
\* before any terminal write.
C10_StringFirst ==
    (Pos("_bsearch") > 0 /\ Pos("tostr returned") > 0) =>
      /\ Pos("tostr returned") < Pos("_bsearch")
      /\ \A k \in 1..Len(log) : TerminalStep(log[k]) => Pos("tostr returned") < k

\* C10, amended: the binary search runs and returns, then tostr is called
\* and returns, then the item is put in the list, and only then does the
\* insert write to the terminal: every call of the key, of tostr and of
\* _dir_process is over before the first cursor move or line write.
C10_SearchThenString ==
    /\ Pos("tostr returned") > 0 =>
         /\ 0 < Pos("_bsearch")
         /\ Pos("_bsearch") < Pos("_bsearch returned")
         /\ Pos("_bsearch returned") < Pos("tostr")
         /\ Pos("tostr") < Pos("tostr returned")
         /\ Pos("tostr returned") < Pos("items.insert")
    /\ \A k \in 1..Len(log) :
         TerminalStep(log[k]) =>
           \A j \in (k + 1)..Len(log) : TerminalStep(log[j])
    /\ \A k \in 1..Len(log) :
         (TerminalStep(log[k]) /\ Pos("_bsearch") > 0) => Pos("items.insert") < k

\* An insert that ran a pass and then repainted.
C10_Witness ==
    \E i, k \in 1..Len(log) : log[i] = "_dir_process" /\ log[k] = "write"


\* Column c (from 1) of the grid of the last _contents call.
ColumnOf(c) == columnat(call.cells, c - 1, call.rows, call.columns, cfg)

\* The cells that are not blank, in the order of the list of cells.
RECURSIVE RealCells(_)
RealCells(cells) ==
    IF cells = <<>> THEN <<>>
    ELSE (IF cells[1] = <<>> THEN <<>> ELSE <<cells[1]>>) \o RealCells(Tail(cells))

\* The shape of a column-major grid of non-blank strings: ceil(n/c) cells in
\* each of the c columns, blank cells only below the real ones of their
\* column, the real cells read column by column being the input list.
GridShape ==
    /\ call.rows * call.columns = Len(call.cells)
    /\ call.rows = (Len(call.strings) + call.columns - 1) \div call.columns
    /\ \A c \in 1..call.columns :
         /\ Len(ColumnOf(c)) = call.rows
         /\ \A r \in 1..(call.rows - 1) :
              ColumnOf(c)[r] = <<>> => ColumnOf(c)[r + 1] = <<>>
    /\ RealCells(call.cells) = call.strings

\* A column-major _contents call on non-blank strings.
ColumnMajorCall ==
    /\ call.fn = "_contents" /\ ~cfg.row_wise
    /\ \A k \in 1..Len(call.strings) : call.strings[k] # <<>>

\* C11 as stated: with row_wise false, for every item count n >= 1 and every
\* column count c >= 2 the grid of _contents has ceil(n/c) cells in each of
\* the c columns, blank cells only at the bottom of columns, the real items
\* in input order each once, and no column made only of blank cells.
C11_NoBlankColumn ==
    ColumnMajorCall =>
      /\ GridShape
      /\ \A c \in 1..call.columns : ColumnOf(c)[1] # <<>>

\* C11, amended: the same shape, and no column made only of blank cells
\* when there are at least as many items as columns; with fewer items than
\* columns the grid is one row whose first n cells are the items and whose
\* other cells are blank.
C11_ColumnMajorShape ==
    ColumnMajorCall =>
      /\ GridShape
      /\ Len(call.strings) >= call.columns =>
           \A c \in 1..call.columns : ColumnOf(c)[1] # <<>>
      /\ Len(call.strings) < call.columns =>
           /\ call.rows = 1
           /\ \A c \in 1..call.columns :
                ColumnOf(c)[1] = <<>> <=> c > Len(call.strings)

\* A grid in which a blank cell was put in a column before the last one: the
\* columns would otherwise not all be filled.
C11_Witness ==
    /\ ColumnMajorCall
    /\ Len(call.strings) >= call.columns
    /\ call.rows > 1
    /\ \E c \in 1..(call.columns - 1) : ColumnOf(c)[call.rows] = <<>>
    /\ ColumnOf(call.columns)[1] # <<>>


\* The steps of the last operation that come after the item was put in the
\* list: the terminal steps of the insert.
RECURSIVE AfterInsert(_)
AfterInsert(l) ==
    IF l = <<>> THEN <<>>
    ELSE IF l[Len(l)] = "items.insert" THEN <<>>
    ELSE Append(AfterInsert(SubSeq(l, 1, Len(l) - 1)), l[Len(l)])

\* The number of lines a repaint may write: the last min(len(lines), space)
\* of them, none when space <= 0.
Clamped(full) ==
    IF cfg.term_lines - 1 > 0 THEN Min2(Len(full), cfg.term_lines - 1) ELSE 0

\* C12: an insert that repaints moves the cursor up by exactly prev_lines,
\* then clears and writes, in order, the last min(len(lines), space) lines
\* of the layout of the whole list, space being the terminal height - 1, and
\* records their number in prev_lines; in every state of a session
\* prev_lines is at most the terminal height - 1, the rows above the cursor
\* that the next move up crosses were written by the session, and with
\* space <= 0 nothing is written and prev_lines is 0.
C12_ClampedRepaint ==
    /\ [](~items_is_none =>
            /\ prev_lines >= 0
            /\ prev_lines <= Max2(0, cfg.term_lines - 1)
            /\ cursor - prev_lines >= top
            /\ \A r \in (cursor - prev_lines)..(cursor - 1) : r \in painted
            /\ cfg.term_lines - 1 <= 0 => (prev_lines = 0 /\ painted = {}))
    /\ [][(/\ ~items_is_none /\ ~cfg.no_running
           /\ Len(arrived') = Len(arrived) + 1
           /\ (prev_time = None \/ clock' - prev_time >= cfg.spacing)) =>
            LET full == lines(items', cfg)
                k == Clamped(full)
                first == cursor - prev_lines
            IN /\ AfterInsert(log') =
                    (IF prev_lines > 0 THEN <<"move_up">> ELSE <<>>)
                      \o Repeat("write", k)
               /\ prev_lines' = k
               /\ cursor' = first + k
               /\ painted' = painted \cup first..(first + k - 1)
               /\ \A j \in 1..k : screen'[first + j - 1] = full[Len(full) - k + j]
               /\ \A r \in 1..Len(screen) :
                    r \notin first..(first + k - 1) => screen'[r] = screen[r]]_vars

\* A second repaint of a session whose layout has more lines than the
\* window leaves room for: only the last ones were written.
C12_Witness ==
    /\ ~items_is_none /\ cfg.term_lines - 1 > 0
    /\ prev_lines = cfg.term_lines - 1
    /\ Len(lines(items, cfg)) > prev_lines
    /\ \E k \in 1..Len(log) : log[k] = "move_up"
    /\ screen[cursor - 1] = lines(items, cfg)[Len(lines(items, cfg))]


\* The nodes below node n of the filesystem.
RECURSIVE Below(_)
Below(n) ==
    UNION {{FS[n].kids[k]} \cup Below(FS[n].kids[k]) : k \in 1..Len(FS[n].kids)}

FilesBelow(n) == {k \in Below(n) : FS[k].kind = "file"}

DirsBelow(n) == {k \in Below(n) : FS[k].kind = "dir"}

RECURSIVE SizeOf(_)
SizeOf(S) ==
    IF S = {} THEN 0
    ELSE LET k == CHOOSE x \in S : TRUE IN FS[k].size + SizeOf(S \ {k})

\* A directory Entry whose pass has run and returned.
PassDone(id) ==
    id \in DOMAIN entries /\ entries[id].isdir /\ passes[id] > 0

\* No os.scandir of a directory raised during the pass of Entry id.
DirsEnumerated(id) ==
    \A k \in 1..Len(scanned[id]) :
      FS[scanned[id][k].node].kind = "dir" => scanned[id][k].ok

\* The pass of Entry id called os.scandir once on each directory of the
\* subtree, the top included, and on nothing else.
EachDirOnce(id) ==
    /\ {scanned[id][k].node : k \in 1..Len(scanned[id])}
         = DirsBelow(entries[id].path) \cup {entries[id].path}
    /\ Len(scanned[id]) = Cardinality(DirsBelow(entries[id].path)) + 1

\* The totals of the subtree of Entry id.
Totals(id) ==
    /\ entries[id].subfiles = Cardinality(FilesBelow(entries[id].path))
    /\ entries[id].subdirs = Cardinality(DirsBelow(entries[id].path))
    /\ entries[id].size = SizeOf(FilesBelow(entries[id].path))

\* C13: for every tree in which every directory can be enumerated, the pass
\* ends having enumerated each directory of the subtree exactly once, with
\* subfiles the number of files, subdirs the number of sub-directories and
\* size the sum of the file sizes of the whole subtree.
C13_Totals ==
    \A id \in Nodes :
      (PassDone(id) /\ DirsEnumerated(id)) => (EachDirOnce(id) /\ Totals(id))

\* The same for the trees that hold regular files and directories only.
C13_FilesAndDirsOnly ==
    \A id \in Nodes :
      (/\ PassDone(id) /\ DirsEnumerated(id)
       /\ \A k \in Below(entries[id].path) : FS[k].kind \in {"file", "dir"})
        => (EachDirOnce(id) /\ Totals(id))

\* The pass over T, which is three levels deep and holds an empty directory,
\* has run.
C13_Reached ==
    /\ PassDone(9) /\ DirsEnumerated(9)
    /\ Len(scanned[9]) = 4 /\ entries[9].size = 9

\* C15: when every directory of the subtree of a directory Entry can be
\* enumerated, size, subfiles and subdirs are non-negative, whatever other
\* children the subtree holds; a child that is neither a regular file nor a
\* directory is not pushed for traversal (os.scandir is never called on it).
C15_SentinelOnlyOnFailedDir ==
    \A id \in Nodes :
      (PassDone(id) /\ DirsEnumerated(id)) =>
        /\ entries[id].size >= 0
        /\ entries[id].subfiles >= 0
        /\ entries[id].subdirs >= 0
        /\ \A k \in 1..Len(scanned[id]) : FS[scanned[id][k].node].kind = "dir"


\* The string without its leading spaces.
RECURSIVE Unpadded(_)
Unpadded(s) == IF s # <<>> /\ s[1] = 32 THEN Unpadded(Tail(s)) ELSE s

\* The place of the point in s, Len(s) + 1 when there is none.
PointAt(s) ==
    IF \E k \in 1..Len(s) : s[k] = 46
    THEN CHOOSE k \in 1..Len(s) : s[k] = 46 ELSE Len(s) + 1

\* Whether s is made of decimal digits, and the number they write.
AllDigits(s) == \A k \in 1..Len(s) : s[k] \in 48..57

RECURSIVE ToInt(_)
ToInt(s) ==
    IF s = <<>> THEN 0
    ELSE 10 * ToInt(SubSeq(s, 1, Len(s) - 1)) + (s[Len(s)] - 48)

\* The numeral s = "I.F" in units of 10^-d: I * 10^d + F * 10^(d - len(F)).
InUnits(s, d) ==
    LET p == PointAt(s)
        frac == SubSeq(s, p + 1, Len(s))
    IN ToInt(SubSeq(s, 1, p - 1)) * Pow10(d) + ToInt(frac) * Pow10(d - Len(frac))

\* s is a numeral with at most d decimals that differs from n / den by at
\* most half of 10^-d.
Accurate(s, n, den, d) ==
    /\ s # <<>> /\ PointAt(s) > 1
    /\ AllDigits(SubSeq(s, 1, PointAt(s) - 1))
    /\ AllDigits(SubSeq(s, PointAt(s) + 1, Len(s)))
    /\ Len(s) - PointAt(s) <= d
    /\ LET diff == InUnits(s, d) * den - n * Pow10(d)
       IN 2 * diff <= den /\ -2 * diff <= den

\* The number of digits of the integer part of n / den.
IntDigits(n, den) == Len(Digits(n \div den))

\* The decimals that fit beside the integer part of n / den and the point.
DecimalsKept(n, den, length) == Max2(0, length - 1 - IntDigits(n, den))

\* The result of the last _fixedlength call is a string of `length`
\* characters that shows the number to within half a unit of the last
\* decimal kept.
FixedLengthAccurate ==
    /\ call.val # NoString
    /\ Len(call.val) = call.length
    /\ Accurate(Unpadded(call.val), call.n, call.den,
                DecimalsKept(call.n, call.den, call.length))

\* C14: for every non-negative num whose integer part has at most `length`
\* digits, _fixedlength(num, length) is a string of exactly `length`
\* characters whose numeral differs from num by at most half a unit of the
\* last decimal place kept (0.5 when no decimals fit), so that rounding and
\* truncation never change the order of magnitude.
C14_MostAccurate ==
    (call.fn = "_fixedlength" /\ IntDigits(call.n, call.den) <= call.length)
      => FixedLengthAccurate

\* The same for every num below 10^length - 0.5, which rounding does not
\* take to length + 1 digits.
C14_BelowRollover ==
    (/\ call.fn = "_fixedlength"
     /\ 2 * call.n < (2 * Pow10(call.length) - 1) * call.den)
      => FixedLengthAccurate

\* A value that rounding takes to the next power of ten within `length`
\* characters: 99.5 in 3 characters.
C14_Reached ==
    /\ call.fn = "_fixedlength" /\ call.length = 3
    /\ call.n = 199 /\ call.den = 2 /\ call.val = <<49, 48, 48>>

====
